---- MODULE Spec2Model ----
(***************************************************************************)
(* A model of the CDCL solver of SATurday: the clause model of             *)
(* src/datastructs/formula.py and the trail, unit propagation, conflict    *)
(* analysis, backjumping and search loop of src/solver/environment.py.     *)
(*                                                                         *)
(* A literal is a record [variable, polarity]; a clause is a record        *)
(* [children, learned, resolution_steps], children being the list of its   *)
(* literals; the clause database is the list `clauses`, and every          *)
(* reference to a clause object held by the solver (an antecedent, a       *)
(* conflict clause, a resolution step) is the position of that clause in   *)
(* the database, which never shrinks.                                      *)
(***************************************************************************)
EXTENDS Integers, Sequences, FiniteSets, TLC

\* ------------------------------------------------------------------ bounds
NumVars == 3        \* variables v1..vNumVars of the input
MaxClauses == 4     \* clause lines of the input
MaxLits == 6        \* literals of the input, over all its clause lines
MaxLearned == 3     \* learned clauses after which the search is cut off
MaxClauseLen == 3   \* literals of a clause whose status is queried

\* ---------------------------------------------------------------- literals
ClauseLiteral(v, p) == [variable |-> v, polarity |-> p]

Negated(lit) == ClauseLiteral(lit.variable, ~lit.polarity)

\* the variables of the solver, in insertion order (v1..vn of the header)
variables == [i \in 1..NumVars |-> i]

\* ----------------------------------------------------------------- clauses
RECURSIVE SeqSum(_)
SeqSum(s) == IF s = <<>> THEN 0 ELSE Head(s) + SeqSum(Tail(s))

LitKey(lit) == 2 * lit.variable + (IF lit.polarity THEN 1 ELSE 0)

\* the list a set of literals is iterated as: the solver reads a clause
\* through its per-variable maps and its length only, so one order stands
\* for all of them
RECURSIVE ListOf(_)
ListOf(lits) ==
    IF lits = {} THEN <<>>
    ELSE LET first == CHOOSE l \in lits : \A o \in lits : LitKey(l) <= LitKey(o)
         IN <<first>> \o ListOf(lits \ {first})

Clause(children) ==
    [children |-> children, learned |-> FALSE, resolution_steps |-> <<>>]

LearnedClause(children) ==
    [children |-> children, learned |-> TRUE, resolution_steps |-> <<>>]

get_literals(c) == c.children

get_variables(c) == {c.children[i].variable : i \in DOMAIN c.children}

\* { lit.variable: lit.polarity for lit in children }: the last literal on a
\* variable wins
get_literals_polarity_map(c) ==
    [v \in get_variables(c) |->
        LET last == CHOOSE i \in DOMAIN c.children :
                        /\ c.children[i].variable = v
                        /\ \A j \in DOMAIN c.children :
                               j > i => c.children[j].variable # v
        IN c.children[last].polarity]

get_literal(c, v) == ClauseLiteral(v, get_literals_polarity_map(c)[v])

is_consistent(c, model) ==
    LET pm == get_literals_polarity_map(c)
    IN \E v \in DOMAIN pm : v \notin DOMAIN model \/ model[v] = pm[v]

is_unit(c, model) ==
    LET pm == get_literals_polarity_map(c)
    IN /\ \A v \in DOMAIN pm : v \in DOMAIN model => model[v] # pm[v]
       /\ Cardinality({v \in DOMAIN pm : v \notin DOMAIN model}) = 1

\* a get_unit that returns the unassigned literal with the other polarity
get_unit_negated(c, model) ==
    LET pm == get_literals_polarity_map(c)
        v == CHOOSE u \in DOMAIN pm : u \notin DOMAIN model
    IN ClauseLiteral(v, ~pm[v])

get_unit(c, model) ==
    LET pm == get_literals_polarity_map(c)
    IN get_literal(c, CHOOSE v \in DOMAIN pm : v \notin DOMAIN model)

\* no literal: the unit of a status that is not UNIT
None == ClauseLiteral(0, FALSE)

ClauseStatus(status_enum, unit) == [status |-> status_enum, unit |-> unit]

\* the pass of get_status over the literals from position i on, given the
\* count of unassigned literals and the potential unit met so far
RECURSIVE StatusPass(_, _, _, _, _)
StatusPass(lits, i, model, n_unassigned, potential_unit) ==
    IF i > Len(lits)
    THEN IF n_unassigned = 1 THEN ClauseStatus("UNIT", potential_unit)
         ELSE ClauseStatus("INCONSISTENT", None)
    ELSE IF lits[i].variable \notin DOMAIN model
         THEN IF n_unassigned + 1 > 1 THEN ClauseStatus("CONSISTENT", None)
              ELSE StatusPass(lits, i + 1, model, n_unassigned + 1, lits[i])
         ELSE IF model[lits[i].variable] = lits[i].polarity
              THEN ClauseStatus("TRUE", None)
              ELSE StatusPass(lits, i + 1, model, n_unassigned, potential_unit)

get_status(c, model) == StatusPass(get_literals(c), 1, model, 0, None)

\* a resolution that keeps the literals of the first clause only: the
\* antecedent's other literals are forgotten
ResolventOfFirst(a, b) ==
    LET lits == {a.children[i] : i \in DOMAIN a.children}
                    \cup {b.children[i] : i \in DOMAIN b.children}
    IN LearnedClause(ListOf({lit \in {a.children[i] : i \in DOMAIN a.children} :
                                Negated(lit) \notin lits}))

\* set(chain(a, b)), the complementary pairs kept
ResolventKeepingPairs(a, b) ==
    LearnedClause(ListOf({a.children[i] : i \in DOMAIN a.children}
                            \cup {b.children[i] : i \in DOMAIN b.children}))

\* set(chain(a, b)) without every literal whose negation is in it too
Resolvent(a, b) ==
    LET lits == {a.children[i] : i \in DOMAIN a.children}
                    \cup {b.children[i] : i \in DOMAIN b.children}
    IN LearnedClause(ListOf({lit \in lits : Negated(lit) \notin lits}))

\* the original clauses a clause was derived from; steps are positions in db
RECURSIVE get_resolution_formula_clauses(_, _)
get_resolution_formula_clauses(db, c) ==
    IF ~c.learned THEN {c}
    ELSE UNION {get_resolution_formula_clauses(db, db[c.resolution_steps[i]]) :
                    i \in DOMAIN c.resolution_steps}

\* ------------------------------------------------------------------- state
VARIABLES
    clauses,          \* SolverEnvironment.clauses
    learned_clauses,  \* SolverEnvironment.learned_clauses (positions in clauses)
    decision_level,   \* ImplicationGraph.decision_level
    stack,            \* ImplicationGraph.stack
    lits_map,         \* ImplicationGraph.lits_map
    pc,               \* where the search loop is
    conflict_clause,  \* conflict_analysis: position of the conflict clause
    learned_clause,   \* conflict_analysis: the clause being derived
    proof_clauses,    \* conflict_analysis: positions of the clauses used
    learned_is_unit,  \* conflict_analysis: flag of the backjump loop
    reason,           \* UnsatException.reason
    query_clause,     \* the clause a status query is made on
    query_model,      \* the partial model of the query
    status,           \* what get_status returned
    helpers           \* what is_unit, is_consistent and get_unit returned

query_vars == <<query_clause, query_model, status, helpers>>

vars == <<clauses, learned_clauses, decision_level, stack, lits_map, pc,
          conflict_clause, learned_clause, proof_clauses, learned_is_unit,
          reason, query_vars>>

\* ------------------------------------------------------------------- trail
DecisionStep(lit, level) ==
    [literal |-> lit, decision |-> TRUE, antecedent_clause |-> 0,
     decision_level |-> level]

UnitPropagationStep(lit, antecedent, level) ==
    [literal |-> lit, decision |-> FALSE, antecedent_clause |-> antecedent,
     decision_level |-> level]

is_empty(stk) == Len(stk) = 0

get_last_step(stk) == stk[Len(stk)]

get_last_decision_level(stk) == get_last_step(stk).decision_level

\* { node.literal.variable: node.literal.polarity for node in stack }
get_model_map(stk) ==
    LET assigned == {stk[i].literal.variable : i \in DOMAIN stk}
    IN [v \in assigned |->
           LET last == CHOOSE i \in DOMAIN stk :
                           /\ stk[i].literal.variable = v
                           /\ \A j \in DOMAIN stk :
                                  j > i => stk[j].literal.variable # v
           IN stk[last].literal.polarity]

\* stack.append(node); lits_map[node.literal.variable] = node     (the
\* step object a variable maps to is given by its position in the stack)
add_node(node) ==
    /\ stack' = Append(stack, node)
    /\ lits_map' = [v \in DOMAIN lits_map \cup {node.literal.variable} |->
                       IF v = node.literal.variable THEN Len(stack) + 1
                       ELSE lits_map[v]]

\* a decision that assigns the variable true
add_decision_true(lit) ==
    /\ decision_level' = decision_level + 1
    /\ add_node(DecisionStep(Negated(lit), decision_level + 1))

add_decision(lit) ==
    /\ decision_level' = decision_level + 1
    /\ add_node(DecisionStep(lit, decision_level + 1))

\* a unit propagation whose step records decision level 0
add_unit_at_level_zero(lit, antecedent) ==
    /\ add_node(UnitPropagationStep(lit, antecedent, 0))
    /\ UNCHANGED decision_level

add_unit(lit, antecedent) ==
    /\ add_node(UnitPropagationStep(lit, antecedent, decision_level))
    /\ UNCHANGED decision_level

\* a pop that removes the first step of the stack, not the last
pop_first ==
    /\ stack' = Tail(stack)
    /\ lits_map' = [v \in DOMAIN lits_map \ {Head(stack).literal.variable}
                       |-> lits_map[v]]
    /\ UNCHANGED decision_level

\* a pop that leaves the entry of the popped step in lits_map
pop_keeping_entry ==
    /\ stack' = SubSeq(stack, 1, Len(stack) - 1)
    /\ UNCHANGED <<lits_map, decision_level>>

\* res = stack.pop(); del lits_map[res.literal.variable]
pop ==
    /\ stack' = SubSeq(stack, 1, Len(stack) - 1)
    /\ lits_map' = [v \in DOMAIN lits_map \ {get_last_step(stack).literal.variable}
                       |-> lits_map[v]]
    /\ UNCHANGED decision_level

\* ------------------------------------------------------------------ inputs
\* a clause line of a DIMACS file, closed by 0: for each variable, whether
\* the line names it as i (1), as -i (-1) or not at all (0); the literals
\* are listed by increasing variable, which the solver never looks at
Lines == [1..NumVars -> {-1, 0, 1}]

\* var = variables[abs(lit) - 1]; clause.append(ClauseLiteral(var, lit > 0))
RECURSIVE LineLiterals(_, _)
LineLiterals(line, i) ==
    IF i > NumVars THEN <<>>
    ELSE (IF line[i] = 0 THEN <<>>
          ELSE <<ClauseLiteral(variables[i], line[i] > 0)>>)
         \o LineLiterals(line, i + 1)

NoReason == [collection |-> FALSE, value |-> {}]

\* get_status has not been called
NotAsked == ClauseStatus("", None)

\* the helpers have not been called
NoAnswers == [called |-> FALSE, is_unit |-> FALSE, is_consistent |-> FALSE,
              get_unit |-> [raised |-> FALSE, value |-> None]]

\* the state after construction: SolverEnvironment.__init__ and
\* ImplicationGraph.__init__, the parser about to read the clause lines
Init ==
    /\ clauses = <<>>
    /\ learned_clauses = <<>>
    /\ decision_level = 0
    /\ stack = <<>>
    /\ lits_map = <<>>
    /\ pc = "parse"
    /\ conflict_clause = 0
    /\ learned_clause = Clause(<<>>)
    /\ proof_clauses = <<>>
    /\ learned_is_unit = FALSE
    /\ reason = NoReason
    /\ query_clause = Clause(<<>>)
    /\ query_model = <<>>
    /\ status = NotAsked
    /\ helpers = NoAnswers

\* ------------------------------------------------------------ parse_dimacs
\* the literals read so far
NumLits(db) == SeqSum([i \in DOMAIN db |-> Len(db[i].children)])

\* the clause lines of at most n literals
LinesUpTo(n) == {line \in Lines : Cardinality({i \in 1..NumVars : line[i] # 0}) <= n}

analysis_locals == <<conflict_clause, learned_clause, proof_clauses, learned_is_unit>>

\* a clause line of the input: clauses.append(Clause(clause))
ParseClause ==
    /\ pc = "parse"
    /\ Len(clauses) < MaxClauses
    /\ \E line \in LinesUpTo(MaxLits - NumLits(clauses)) :
           clauses' = Append(clauses, Clause(LineLiterals(line, 1)))
    /\ UNCHANGED <<learned_clauses, decision_level, stack, lits_map, pc,
                   analysis_locals, reason>>
    /\ UNCHANGED query_vars

\* the end of the input: cdcl() is called on the clauses read
StartCdcl ==
    /\ pc = "parse"
    /\ pc' = "propagate"
    /\ UNCHANGED <<clauses, learned_clauses, decision_level, stack, lits_map,
                   analysis_locals, reason>>
    /\ UNCHANGED query_vars

\* ---------------------------------------------------------- unit_propagate
Min(S) == CHOOSE x \in S : \A y \in S : x <= y

\* a scan for a unit clause that looks at the input clauses only
FirstUnitOfInput(db, model) ==
    LET units == {i \in DOMAIN db : ~db[i].learned /\ is_unit(db[i], model)}
    IN IF units = {} THEN 0 ELSE Min(units)

\* a scan for a unit clause that keeps the last unit clause it meets
LastUnit(db, model) ==
    LET units == {i \in DOMAIN db : is_unit(db[i], model)}
    IN IF units = {} THEN 0 ELSE CHOOSE x \in units : \A y \in units : y <= x

\* for c in self.clauses: if c.is_unit(model_map): ... break   (0: none)
FirstUnit(db, model) ==
    LET units == {i \in DOMAIN db : is_unit(db[i], model)}
    IN IF units = {} THEN 0 ELSE Min(units)

\* a scan for a conflict that keeps the last inconsistent clause it meets
LastConflict(db, model) ==
    LET conflicts == {i \in DOMAIN db : ~is_consistent(db[i], model)}
    IN IF conflicts = {} THEN 0 ELSE CHOOSE x \in conflicts : \A y \in conflicts : y <= x

\* the scan for a conflict looking at the first clause only
ConflictInFirstClause(db, model) ==
    IF db # <<>> /\ ~is_consistent(db[1], model) THEN 1 ELSE 0

\* for c in self.clauses: if not c.is_consistent(model_map): ... break
FirstConflict(db, model) ==
    LET conflicts == {i \in DOMAIN db : ~is_consistent(db[i], model)}
    IN IF conflicts = {} THEN 0 ELSE Min(conflicts)

\* a round of the loop that finds no unit clause: unit_propagate returns None
PropagateNone ==
    /\ pc = "propagate"
    /\ FirstUnit(clauses, get_model_map(stack)) = 0
    /\ pc' = "decide"
    /\ UNCHANGED <<clauses, learned_clauses, decision_level, stack, lits_map,
                   analysis_locals, reason>>
    /\ UNCHANGED query_vars

\* a round of the loop that finds a unit clause: the step is added, and the
\* clauses are scanned for a conflict, which starts conflict_analysis
PropagateUnit ==
    /\ pc = "propagate"
    /\ LET model_map == get_model_map(stack)
           unit_clause == FirstUnit(clauses, model_map)
       IN /\ unit_clause # 0
          /\ add_unit(get_unit(clauses[unit_clause], model_map), unit_clause)
    /\ LET conflict == FirstConflict(clauses, get_model_map(stack'))
       IN IF conflict = 0
          THEN /\ pc' = "propagate"
               /\ UNCHANGED analysis_locals
          ELSE /\ pc' = "analysis"
               /\ conflict_clause' = conflict
               /\ learned_clause' = clauses[conflict]
               /\ proof_clauses' = <<conflict>>
               /\ UNCHANGED learned_is_unit
    /\ UNCHANGED <<clauses, learned_clauses, reason>>
    /\ UNCHANGED query_vars

\* ------------------------------------------------------- conflict_analysis
\* the loop condition reads the last step of an empty trail: IndexError
AnalysisError ==
    /\ pc = "analysis"
    /\ is_empty(stack)
    /\ pc' = "error"
    /\ UNCHANGED <<clauses, learned_clauses, decision_level, stack, lits_map,
                   analysis_locals, reason>>
    /\ UNCHANGED query_vars

\* an iteration of the resolution loop: the last step, a unit propagation,
\* is popped and its antecedent resolved with the learned clause; an empty
\* resolvent raises UnsatException with the original clauses of the proof
ResolveStep ==
    /\ pc = "analysis"
    /\ ~is_empty(stack)
    /\ ~get_last_step(stack).decision
    /\ pop
    /\ LET antecedent == get_last_step(stack).antecedent_clause
           resolved == Resolvent(learned_clause, clauses[antecedent])
           proof == Append(proof_clauses, antecedent)
       IN /\ learned_clause' = resolved
          /\ proof_clauses' = proof
          /\ IF Len(resolved.children) = 0
             THEN /\ pc' = "unsat"
                  /\ reason' =
                       [collection |-> TRUE,
                        value |-> get_resolution_formula_clauses(clauses,
                            [resolved EXCEPT !.resolution_steps = proof])]
             ELSE /\ pc' = "analysis"
                  /\ UNCHANGED reason
    /\ UNCHANGED <<clauses, learned_clauses, conflict_clause, learned_is_unit>>
    /\ UNCHANGED query_vars

\* a learning step that records the clause in self.clauses only, without its
\* resolution steps
LearnClauseUnrecorded ==
    /\ pc = "analysis"
    /\ ~is_empty(stack)
    /\ get_last_step(stack).decision
    /\ Len(learned_clauses) < MaxLearned
    /\ clauses' = Append(clauses, learned_clause)
    /\ learned_is_unit' = FALSE
    /\ pc' = "backjump"
    /\ UNCHANGED <<learned_clauses, decision_level, stack, lits_map,
                   conflict_clause, learned_clause, proof_clauses, reason>>
    /\ UNCHANGED query_vars

\* the resolution loop ends at a decision: the learned clause is recorded
\* and the backjump loop starts
LearnClause ==
    /\ pc = "analysis"
    /\ ~is_empty(stack)
    /\ get_last_step(stack).decision
    /\ Len(learned_clauses) < MaxLearned
    /\ LET learned == [learned_clause EXCEPT !.resolution_steps = proof_clauses]
       IN /\ learned_clause' = learned
          /\ clauses' = Append(clauses, learned)
          /\ learned_clauses' = Append(learned_clauses, Len(clauses) + 1)
    /\ learned_is_unit' = FALSE
    /\ pc' = "backjump"
    /\ UNCHANGED <<decision_level, stack, lits_map, conflict_clause,
                   proof_clauses, reason>>
    /\ UNCHANGED query_vars

RaiseUnsatConflict ==
    /\ pc' = "unsat"
    /\ reason' = [collection |-> FALSE, value |-> {clauses[conflict_clause]}]

\* the backjump loop ends by raising UnsatException(conflict_clause): the
\* trail is empty and the clause not unit yet, or the last step was added
\* at decision level 0
BackjumpUnsat ==
    /\ pc = "backjump"
    /\ \/ is_empty(stack) /\ ~learned_is_unit
       \/ ~is_empty(stack) /\ get_last_decision_level(stack) = 0
    /\ RaiseUnsatConflict
    /\ UNCHANGED <<clauses, learned_clauses, decision_level, stack, lits_map,
                   analysis_locals>>
    /\ UNCHANGED query_vars

\* the backjump loop ends normally: the trail is empty, or the last step is
\* the second one met whose variable is in the learned clause; control is
\* back in the loop of unit_propagate
BackjumpStop ==
    /\ pc = "backjump"
    /\ learned_is_unit
    /\ \/ is_empty(stack)
       \/ /\ ~is_empty(stack)
          /\ get_last_decision_level(stack) # 0
          /\ get_last_step(stack).literal.variable \in get_variables(learned_clause)
    /\ pc' = "propagate"
    /\ UNCHANGED <<clauses, learned_clauses, decision_level, stack, lits_map,
                   analysis_locals, reason>>
    /\ UNCHANGED query_vars

\* an iteration of the backjump loop that pops the last step whether or not
\* the learned clause is unit already
BackjumpPopAny ==
    /\ pc = "backjump"
    /\ ~is_empty(stack)
    /\ get_last_decision_level(stack) # 0
    /\ learned_is_unit' =
           (learned_is_unit \/ get_last_step(stack).literal.variable
                                  \in get_variables(learned_clause))
    /\ pop
    /\ pc' = "backjump"
    /\ UNCHANGED <<clauses, learned_clauses, conflict_clause, learned_clause,
                   proof_clauses, reason>>
    /\ UNCHANGED query_vars

\* an iteration of the backjump loop that pops the last step
BackjumpPop ==
    /\ pc = "backjump"
    /\ ~is_empty(stack)
    /\ get_last_decision_level(stack) # 0
    /\ LET in_learned == get_last_step(stack).literal.variable
                             \in get_variables(learned_clause)
       IN /\ in_learned => ~learned_is_unit
          /\ learned_is_unit' = (learned_is_unit \/ in_learned)
    /\ pop
    /\ pc' = "backjump"
    /\ UNCHANGED <<clauses, learned_clauses, conflict_clause, learned_clause,
                   proof_clauses, reason>>
    /\ UNCHANGED query_vars

\* -------------------------------------------------------------------- cdcl
\* a choice of the variable to decide that ignores the trail
AnyVariable == DOMAIN variables

Unassigned == {i \in DOMAIN variables : variables[i] \notin DOMAIN lits_map}

\* var = next(var for var in self.variables if var not in lits_map)
Decide ==
    /\ pc = "decide"
    /\ Unassigned # {}
    /\ add_decision(ClauseLiteral(variables[Min(Unassigned)], FALSE))
    /\ pc' = "propagate"
    /\ UNCHANGED <<clauses, learned_clauses, analysis_locals, reason>>
    /\ UNCHANGED query_vars

\* StopIteration: no variable is left to decide
ReportSat ==
    /\ pc = "decide"
    /\ Unassigned = {}
    /\ pc' = "sat"
    /\ UNCHANGED <<clauses, learned_clauses, decision_level, stack, lits_map,
                   analysis_locals, reason>>
    /\ UNCHANGED query_vars

Next ==
    \/ ParseClause
    \/ StartCdcl
    \/ PropagateNone
    \/ PropagateUnit
    \/ AnalysisError
    \/ ResolveStep
    \/ LearnClause
    \/ BackjumpUnsat
    \/ BackjumpStop
    \/ BackjumpPop
    \/ Decide
    \/ ReportSat

Spec == Init /\ [][Next]_vars

\* ---------------------------------------------------------- status queries
\* the clauses a query is made on: lists of literals in any order, as the
\* constructor of Clause takes them
Literals == {ClauseLiteral(variables[i], p) : i \in DOMAIN variables, p \in BOOLEAN}

LiteralLists == UNION {[1..n -> Literals] : n \in 0..MaxClauseLen}

\* the partial models: dict[BooleanVariable, bool]
Models == UNION {[D -> BOOLEAN] : D \in SUBSET {variables[i] : i \in DOMAIN variables}}

solver_vars == <<clauses, learned_clauses, decision_level, stack, lits_map, pc,
                 conflict_clause, learned_clause, proof_clauses,
                 learned_is_unit, reason>>

\* a clause and a partial model, no solve going on
InitQuery ==
    /\ clauses = <<>>
    /\ learned_clauses = <<>>
    /\ decision_level = 0
    /\ stack = <<>>
    /\ lits_map = <<>>
    /\ pc = "query"
    /\ conflict_clause = 0
    /\ learned_clause = Clause(<<>>)
    /\ proof_clauses = <<>>
    /\ learned_is_unit = FALSE
    /\ reason = NoReason
    /\ query_clause \in {Clause(lits) : lits \in LiteralLists}
    /\ query_model \in Models
    /\ status = NotAsked
    /\ helpers = NoAnswers

\* a call of get_status(model) on the clause
GetStatus ==
    /\ pc = "query"
    /\ status = NotAsked
    /\ status' = get_status(query_clause, query_model)
    /\ UNCHANGED <<solver_vars, query_clause, query_model, helpers>>

\* calls of is_unit(model), is_consistent(model) and get_unit(model), which
\* raises Exception("Clause is not unit") when is_unit is false
CallHelpers ==
    /\ pc = "query"
    /\ ~helpers.called
    /\ helpers' =
         [called |-> TRUE,
          is_unit |-> is_unit(query_clause, query_model),
          is_consistent |-> is_consistent(query_clause, query_model),
          get_unit |-> IF is_unit(query_clause, query_model)
                       THEN [raised |-> FALSE,
                             value |-> get_unit(query_clause, query_model)]
                       ELSE [raised |-> TRUE, value |-> None]]
    /\ UNCHANGED <<solver_vars, query_clause, query_model, status>>

NextQuery == GetStatus \/ CallHelpers

SpecQuery == InitQuery /\ [][NextQuery]_vars

\* ------------------------------------------------------------- vocabulary
\* what the properties below speak of: literals under a partial model,
\* the status of a clause, total assignments
LitsOf(c) == {c.children[i] : i \in DOMAIN c.children}

Satisfied(lit, model) ==
    lit.variable \in DOMAIN model /\ model[lit.variable] = lit.polarity

Falsified(lit, model) ==
    lit.variable \in DOMAIN model /\ model[lit.variable] # lit.polarity

StatusUnit(c, model) ==
    /\ \A lit \in LitsOf(c) : ~Satisfied(lit, model)
    /\ Cardinality({lit \in LitsOf(c) : lit.variable \notin DOMAIN model}) = 1

StatusInconsistent(c, model) == \A lit \in LitsOf(c) : Falsified(lit, model)

TrailModel == get_model_map(stack)

OriginalClauses == {clauses[i] : i \in {j \in DOMAIN clauses : ~clauses[j].learned}}

Assignments == [1..NumVars -> BOOLEAN]

Holds(a, c) == \E lit \in LitsOf(c) : a[lit.variable] = lit.polarity

Satisfiable(cs) == \E a \in Assignments : \A c \in cs : Holds(a, c)

Entailed(c) ==
    \A a \in Assignments : (\A o \in OriginalClauses : Holds(a, o)) => Holds(a, c)

\* no clause line of the input was empty
NoEmptyClause == \A c \in OriginalClauses : Len(c.children) > 0

NumDecisions == Cardinality({i \in DOMAIN stack : stack[i].decision})

\* ------------------------------------------------------------------ claims

\* C1: on an input without an empty clause (a clause line names a variable
\* once at most, so no clause is a tautology), whenever the search reports
\* UNSAT, the original clauses have no satisfying assignment.
C1_UnsatSound ==
    (NoEmptyClause /\ pc = "unsat") => ~Satisfiable(OriginalClauses)

\* C2: whenever the search reports SAT, every variable is assigned on the
\* trail and every input clause has a literal made true by the final model.
C2_SatSound ==
    pc = "sat" =>
        /\ \A i \in DOMAIN variables : variables[i] \in DOMAIN TrailModel
        /\ \A c \in OriginalClauses : \E lit \in LitsOf(c) : Satisfied(lit, TrailModel)

\* the search was cut off by the bound on learned clauses
CutOff == pc = "analysis" /\ Len(learned_clauses) >= MaxLearned

\* C3: the search loop stops, and where it stops it reports SAT or UNSAT:
\* a state the search cannot leave is a SAT or an UNSAT report (or the cut
\* off).  The parser and the head of the propagation loop always have a
\* step (the scan for a unit clause finds one or finds none), so the
\* statement is about the other positions of the loop; it is stated for the
\* inputs without an empty clause, which are enough to refute it.
C3_StopsWithResult ==
    (NoEmptyClause /\ pc \notin {"parse", "propagate"}) =>
        (pc \in {"sat", "unsat"} \/ CutOff \/ ENABLED Next)

\* C4: the value attached to an UNSAT result is a set of original clauses
\* that is by itself unsatisfiable.
C4_UnsatCore ==
    pc = "unsat" =>
        /\ reason.collection
        /\ \A c \in reason.value : ~c.learned /\ c \in OriginalClauses
        /\ ~Satisfiable(reason.value)

\* C5: a clause set that contains the empty clause ends with UNSAT and the
\* empty clause as the core, never with SAT or an error.
C5_EmptyClauseUnsat ==
    (pc # "parse" /\ Clause(<<>>) \in OriginalClauses) =>
        /\ pc \notin {"sat", "error"}
        /\ pc = "unsat" => reason.collection /\ reason.value = {Clause(<<>>)}

\* C6: when conflict_analysis returns normally, the clause it learned is
\* UNIT under the model of the trail backjumping left: none of its literals
\* is satisfied and exactly one is unassigned; stated for the inputs without
\* an empty clause, which are enough to refute it.
C6_LearnedIsUnit ==
    (NoEmptyClause /\ ENABLED BackjumpStop) => StatusUnit(learned_clause, TrailModel)

\* C7: every learned clause is entailed by the original formula.
C7_LearnedEntailed ==
    \A i \in DOMAIN learned_clauses : Entailed(clauses[learned_clauses[i]])

\* the search has ended with SAT after learning a clause that is not among
\* the input clauses and was derived by two resolutions or more
C7_Witness ==
    /\ pc = "sat"
    /\ \E i \in DOMAIN learned_clauses :
          /\ [clauses[learned_clauses[i]] EXCEPT !.learned = FALSE,
                                                !.resolution_steps = <<>>]
                 \notin OriginalClauses
          /\ Len(clauses[learned_clauses[i]].resolution_steps) >= 3

\* C8: in every reachable state decision_level is the number of Decision
\* steps on the stack; stated for the inputs without an empty clause, which
\* are enough to refute it.
C8_LevelCountsDecisions == NoEmptyClause => decision_level = NumDecisions

\* C9: when unit_propagate returns None, no clause of the database is UNIT
\* under the trail model.
C9_PropagationFixpoint ==
    pc = "decide" =>
        \A i \in DOMAIN clauses : ~StatusUnit(clauses[i], TrailModel)

\* unit_propagate has returned None with a learned clause in the database
\* and steps on the trail
C9_Witness ==
    /\ pc = "decide"
    /\ Len(learned_clauses) > 0
    /\ \E i \in DOMAIN stack : ~stack[i].decision

\* the conflict clause has just been found by unit propagation
ConflictFound == pc = "analysis" /\ Len(proof_clauses) = 1

\* C10: the conflict clause unit propagation finds has every literal
\* falsified by the trail model, and is the first such clause of the database.
C10_ConflictClause ==
    ConflictFound =>
        /\ StatusInconsistent(clauses[conflict_clause], TrailModel)
        /\ \A j \in 1..(conflict_clause - 1) :
               ~StatusInconsistent(clauses[j], TrailModel)

\* a conflict clause has been found that is not the last clause of the
\* database, with a later clause falsified too
C10_Witness ==
    /\ ConflictFound
    /\ Len(clauses[conflict_clause].children) > 0
    /\ \E j \in (conflict_clause + 1)..Len(clauses) :
           StatusInconsistent(clauses[j], TrailModel)

\* on inputs without an empty clause line a SAT report is sound
SatSoundWithoutEmptyClause == NoEmptyClause => C2_SatSound

\* C11: no variable is assigned by two steps of the trail.
C11_TrailVariablesDistinct ==
    \A i, j \in DOMAIN stack :
        i # j => stack[i].literal.variable # stack[j].literal.variable

\* the trail assigns every variable, by decisions and by propagations, after
\* a clause was learned and the trail unwound
C11_Witness ==
    /\ Len(stack) = NumVars
    /\ Len(learned_clauses) > 0
    /\ \E i, j \in DOMAIN stack : stack[i].decision /\ ~stack[j].decision

\* C12: the keys of lits_map are exactly the variables assigned by steps of
\* the stack, and each is mapped to the step that assigns it.
C12_MapMatchesStack ==
    /\ DOMAIN lits_map = {stack[i].literal.variable : i \in DOMAIN stack}
    /\ \A v \in DOMAIN lits_map :
           /\ lits_map[v] \in DOMAIN stack
           /\ stack[lits_map[v]].literal.variable = v

\* steps have been popped by backjumping and the trail is not empty
C12_Witness ==
    /\ pc = "backjump"
    /\ learned_is_unit
    /\ Len(stack) > 0
    /\ Len(stack) < NumVars

\* C13: the decision levels recorded on the steps are non-decreasing from
\* the bottom of the stack to the top.
C13_LevelsNonDecreasing ==
    \A i, j \in DOMAIN stack :
        i < j => stack[i].decision_level <= stack[j].decision_level

\* a step propagated from a learned clause, after a backjump, lies above a
\* step of a lower level
C13_Witness ==
    \E i, j \in DOMAIN stack :
        /\ i < j
        /\ stack[i].decision_level < stack[j].decision_level
        /\ ~stack[j].decision
        /\ clauses[stack[j].antecedent_clause].learned

\* each variable is in one literal of the clause at most: no literal twice,
\* no literal with its negation
WellFormedClause(c) ==
    \A i, j \in DOMAIN c.children :
        i # j => c.children[i].variable # c.children[j].variable

\* the status of a clause under a partial model, as defined: TRUE when a
\* literal is satisfied, else by the number of unassigned literals
StatusOf(c, model) ==
    LET unassigned == {lit \in LitsOf(c) : lit.variable \notin DOMAIN model}
    IN IF \E lit \in LitsOf(c) : Satisfied(lit, model)
       THEN ClauseStatus("TRUE", None)
       ELSE IF Cardinality(unassigned) = 1
            THEN ClauseStatus("UNIT", CHOOSE lit \in unassigned : TRUE)
            ELSE IF unassigned = {} THEN ClauseStatus("INCONSISTENT", None)
                 ELSE ClauseStatus("CONSISTENT", None)

\* C14: for a clause without duplicate or complementary literals, in any
\* literal order, and a partial model, get_status returns TRUE iff a
\* literal is satisfied, else UNIT with the one unassigned literal,
\* INCONSISTENT when none is unassigned, CONSISTENT when two or more are.
C14_StatusAsDefined ==
    (status # NotAsked /\ WellFormedClause(query_clause)) =>
        status = StatusOf(query_clause, query_model)

\* is_unit, get_unit and is_consistent answer as get_status does
HelpersAgree ==
    /\ helpers.is_unit <=> status.status = "UNIT"
    /\ status.status = "UNIT" =>
           ~helpers.get_unit.raised /\ helpers.get_unit.value = status.unit
    /\ status.status # "UNIT" => helpers.get_unit.raised
    /\ ~helpers.is_consistent <=> status.status = "INCONSISTENT"

\* C15: the helpers agree with get_status for every clause and every
\* partial model: is_unit is true exactly when the status is UNIT, get_unit
\* then returns the unit literal of the status and raises otherwise, and
\* is_consistent is false exactly when the status is INCONSISTENT.
C15_HelpersAgree ==
    (status # NotAsked /\ helpers.called) => HelpersAgree

\* on the clauses in which each variable is in one literal at most, the
\* helpers agree with get_status
HelpersAgreeWellFormed ==
    (status # NotAsked /\ helpers.called /\ WellFormedClause(query_clause)) =>
        HelpersAgree

\* C16: on a well-formed input (no empty clause; a clause line names a
\* variable once at most) no programming error occurs during a solve: the
\* last step of an empty trail is never read or popped.
C16_NoProgrammingError == NoEmptyClause => pc # "error"

\* every step of the trail is a unit propagation of decision level 0
LevelZeroTrail ==
    \A i \in DOMAIN stack : ~stack[i].decision /\ stack[i].decision_level = 0

\* C17: a conflict detected while the trail holds no Decision step, all
\* its steps unit propagations of level 0, ends the solve with UNSAT: each
\* step of its analysis either reports UNSAT or goes on with the analysis
\* on such a trail; stated for the inputs without an empty clause, which
\* are enough to refute it.
C17_LevelZeroConflictUnsat ==
    [][(NoEmptyClause /\ pc = "analysis" /\ LevelZeroTrail) =>
           (pc' = "unsat" \/ (pc' = "analysis" /\ LevelZeroTrail'))]_vars

\* the step on top of the stack, appended by the step of the search just made
Appended == Len(stack') = Len(stack) + 1

\* C18: a Decision step is appended only when no clause is UNIT under the
\* model and some variable is unassigned; it assigns false to the first
\* unassigned variable in insertion order.
C18_DecisionPolicy ==
    [][(Appended /\ stack'[Len(stack')].decision) =>
           LET lit == stack'[Len(stack')].literal
               unassigned == {i \in DOMAIN variables :
                                 variables[i] \notin DOMAIN TrailModel}
           IN /\ \A i \in DOMAIN clauses : ~StatusUnit(clauses[i], TrailModel)
              /\ unassigned # {}
              /\ lit.variable = variables[Min(unassigned)]
              /\ lit.polarity = FALSE]_vars

\* a decision on a variable other than the first one lies on the trail,
\* above a propagation from a learned clause
C18_Witness ==
    \E i, j \in DOMAIN stack :
        /\ i < j
        /\ ~stack[i].decision
        /\ clauses[stack[i].antecedent_clause].learned
        /\ stack[j].decision
        /\ stack[j].literal.variable # variables[1]

\* C19: the UnitPropagation step appended by a round of unit propagation
\* has as antecedent the first clause of the database that is UNIT under
\* the model, and as literal the one unassigned literal of that clause.
C19_PropagationOrder ==
    [][(Appended /\ ~stack'[Len(stack')].decision) =>
           LET step == stack'[Len(stack')]
               antecedent == step.antecedent_clause
           IN /\ antecedent \in DOMAIN clauses
              /\ StatusUnit(clauses[antecedent], TrailModel)
              /\ \A j \in 1..(antecedent - 1) :
                     ~StatusUnit(clauses[j], TrailModel)
              /\ step.literal \in LitsOf(clauses[antecedent])
              /\ step.literal.variable \notin DOMAIN TrailModel]_vars

\* the step on top of the stack was propagated from an input clause while
\* a learned clause, later in the database, was unit for the same literal
C19_Witness ==
    /\ pc = "propagate"
    /\ Len(stack) > 0
    /\ ~get_last_step(stack).decision
    /\ ~clauses[get_last_step(stack).antecedent_clause].learned
    /\ \E i \in DOMAIN learned_clauses :
           /\ get_last_step(stack).literal \in LitsOf(clauses[learned_clauses[i]])
           /\ \A lit \in LitsOf(clauses[learned_clauses[i]]) \ {get_last_step(stack).literal} :
                  Falsified(lit, TrailModel)

\* the pairs of complementary literals of two clauses
ComplementaryPairs(a, b) == {lit \in LitsOf(a) : Negated(lit) \in LitsOf(b)}

\* C20: each time the resolution loop pops a unit-propagation step, the
\* learned clause and the antecedent of the step share exactly one pair of
\* complementary literals, on the variable of the step; stated for the
\* inputs without an empty clause, which are enough to refute it.
C20_ResolutionHasPivot ==
    (NoEmptyClause /\ ENABLED ResolveStep) =>
        LET step == get_last_step(stack)
            pairs == ComplementaryPairs(learned_clause,
                                        clauses[step.antecedent_clause])
        IN pairs = {Negated(step.literal)}

\* C21: once the input is read, the clause database only grows, and only
\* where conflict analysis goes from its resolution loop to its backjump
\* loop: that step appends one clause, the learned clause with its
\* resolution_steps, to clauses and to learned_clauses; every other step
\* leaves both as they are.  The input clauses stay a prefix of the
\* database and learned_clauses lists the learned clauses of the database.
C21_DatabaseGrowth ==
    [][pc # "parse" =>
         /\ pc' = "backjump" => pc \in {"analysis", "backjump"}
         /\ IF pc = "analysis" /\ pc' = "backjump"
            THEN /\ Len(clauses') = Len(clauses) + 1
                 /\ SubSeq(clauses', 1, Len(clauses)) = clauses
                 /\ clauses'[Len(clauses')] =
                        [children |-> learned_clause.children,
                         learned |-> TRUE,
                         resolution_steps |-> proof_clauses]
                 /\ Len(proof_clauses) >= 2
                 /\ learned_clauses' = Append(learned_clauses, Len(clauses'))
            ELSE clauses' = clauses /\ learned_clauses' = learned_clauses
         /\ \A i, j \in DOMAIN clauses' :
                (i < j /\ clauses'[i].learned) => clauses'[j].learned
         /\ \A i \in DOMAIN clauses' :
                clauses'[i].learned <=>
                    \E k \in DOMAIN learned_clauses' : learned_clauses'[k] = i
         /\ \A k, l \in DOMAIN learned_clauses' :
                k < l => learned_clauses'[k] < learned_clauses'[l]]_vars

\* conflict analysis has returned normally twice
C21_Witness ==
    /\ pc = "propagate"
    /\ Len(learned_clauses) = 2
    /\ Len(clauses) > 2

\* s is t or t without some of its last steps, every step of s as in t
IsPrefix(s, t) == Len(s) <= Len(t) /\ SubSeq(t, 1, Len(s)) = s

\* C22: conflict analysis and backjumping only truncate the trail: each of
\* their steps leaves a prefix of the trail, its steps unchanged, and the
\* first step after the conflict is found leaves a strictly shorter one, so
\* the trail conflict_analysis returns with is a strictly shorter prefix of
\* the trail at the moment the conflict was detected.
C22_TrailTruncated ==
    [][(pc \in {"analysis", "backjump"}) =>
         (IsPrefix(stack', stack) /\
          ((ConflictFound /\ pc' # "error") => (Len(stack') < Len(stack))))]_vars

\* conflict analysis is about to return with steps left on the trail, on an
\* input without an empty clause
C22_Witness ==
    /\ NoEmptyClause
    /\ ENABLED BackjumpStop
    /\ Len(stack) > 0

\* the model of the steps below position i of the stack
ModelBelow(i) == get_model_map(SubSeq(stack, 1, i - 1))

\* C23: for every UnitPropagation step on the trail, its antecedent clause
\* is in the clause database and contains the literal of the step, and
\* every other literal of the antecedent is falsified by the steps that
\* precede the step.
C23_AntecedentInvariant ==
    \A i \in DOMAIN stack :
        ~stack[i].decision =>
            /\ stack[i].antecedent_clause \in DOMAIN clauses
            /\ stack[i].literal \in LitsOf(clauses[stack[i].antecedent_clause])
            /\ \A lit \in LitsOf(clauses[stack[i].antecedent_clause]) \ {stack[i].literal} :
                   Falsified(lit, ModelBelow(i))

\* after a backjump, a step propagated from a clause of two literals or
\* more lies above a step propagated from a learned clause
C23_Witness ==
    \E i, j \in DOMAIN stack :
        /\ i < j
        /\ ~stack[i].decision
        /\ clauses[stack[i].antecedent_clause].learned
        /\ ~stack[j].decision
        /\ Len(clauses[stack[j].antecedent_clause].children) >= 2

\* C24: the decision level recorded on each step of the trail is the number
\* of Decision steps at or below it on the stack (0 for a propagation on a
\* trail without decisions); stated for the inputs without an empty clause,
\* which are enough to refute it.
C24_StepLevels ==
    NoEmptyClause =>
        \A i \in DOMAIN stack :
            stack[i].decision_level =
                Cardinality({j \in 1..i : stack[j].decision})

\* the variable of the last step is a variable of the learned clause
TopInLearned ==
    get_last_step(stack).literal.variable
        \in {lit.variable : lit \in LitsOf(learned_clause)}

\* C25: the backjump loop starts having popped no step on a variable of
\* the learned clause; it pops a step on such a variable only when it has
\* popped none before; it ends normally only when it has popped one, the
\* trail then empty or its top step on a variable of the learned clause;
\* and when the trail is empty with no such step popped, it reports UNSAT.
\* learned_is_unit is the flag of the loop that says one has been popped.
C25_BackjumpStoppingRule ==
    [][/\ (pc = "analysis" /\ pc' = "backjump") => ~learned_is_unit'
       /\ (pc = "backjump" /\ pc' = "backjump") =>
              /\ stack' = SubSeq(stack, 1, Len(stack) - 1)
              /\ IF TopInLearned
                 THEN ~learned_is_unit /\ learned_is_unit'
                 ELSE learned_is_unit' = learned_is_unit
       /\ (pc = "backjump" /\ pc' = "propagate") =>
              /\ learned_is_unit
              /\ stack' = stack
              /\ is_empty(stack) \/ TopInLearned
       /\ (pc = "backjump" /\ is_empty(stack) /\ ~learned_is_unit) =>
              pc' = "unsat"]_vars

\* the backjump loop is about to end normally on a decision on a variable
\* of the learned clause, a clause of two literals or more
C25_Witness ==
    /\ ENABLED BackjumpStop
    /\ ~is_empty(stack)
    /\ get_last_step(stack).decision
    /\ TopInLearned
    /\ Len(learned_clause.children) >= 2

\* C26: no learned clause has the literal set of a clause that was in the
\* database before it; stated for the inputs without an empty clause,
\* which are enough to refute it.
C26_NoClauseLearnedTwice ==
    NoEmptyClause =>
        \A i, j \in DOMAIN clauses :
            (i < j /\ clauses[j].learned) =>
                LitsOf(clauses[i]) # LitsOf(clauses[j])

\* C27: the input clauses name each variable once at most, and so does
\* every clause of the database, the learned ones included: no literal
\* twice, no literal with its negation.
C27_WellFormedDatabase ==
    \A i \in DOMAIN clauses : WellFormedClause(clauses[i])

\* a learned clause of two literals or more, two of the clauses it was
\* resolved from having a literal in common
C27_Witness ==
    \E j \in DOMAIN clauses :
        /\ clauses[j].learned
        /\ Len(clauses[j].children) >= 2
        /\ \E m, n \in DOMAIN clauses[j].resolution_steps :
              /\ m # n
              /\ LitsOf(clauses[clauses[j].resolution_steps[m]])
                    \cap LitsOf(clauses[clauses[j].resolution_steps[n]]) # {}

\* some clause of the database has every literal falsified by the model
SomeClauseFalsified(model) ==
    \E i \in DOMAIN clauses : StatusInconsistent(clauses[i], model)

\* C28: on inputs without an empty clause, when unit_propagate returns (a
\* decision is made next, or SAT reported) no clause of the database has
\* all its literals falsified by the trail model; appending a decision
\* falsifies no clause; and a conflict is found only by the step that
\* appends a unit-propagation step.
C28_NoUndetectedConflict ==
    [][(pc # "parse" /\ NoEmptyClause) =>
           /\ (pc = "propagate" /\ pc' = "decide") =>
                  ~SomeClauseFalsified(TrailModel)
           /\ (pc = "decide") => ~SomeClauseFalsified(TrailModel)
           /\ (Appended /\ stack'[Len(stack')].decision) =>
                  ~SomeClauseFalsified(get_model_map(stack'))
           /\ (pc # "analysis" /\ pc' = "analysis") =>
                  (Appended /\ ~stack'[Len(stack')].decision)]_vars

\* unit_propagate has returned with a variable left to decide, on a trail
\* that ends in a propagation from a learned clause, the input clauses
\* none of them empty
C28_Witness ==
    /\ pc = "decide"
    /\ NoEmptyClause
    /\ Unassigned # {}
    /\ ~is_empty(stack)
    /\ ~get_last_step(stack).decision
    /\ clauses[get_last_step(stack).antecedent_clause].learned

====
